---- MODULE Spec2Model ----
(***************************************************************************)
(* A model of the three example programs of the repository:               *)
(*   src/examples/complex_sample.c  statistics over a DataSet              *)
(*   src/examples/example.c         calculator (factorial, is_prime,       *)
(*                                  calculate, interactive main)           *)
(* C doubles are modelled as exact rationals n/d in lowest terms, plus the *)
(* IEEE special values NaN and +/-infinity; rounding error of the binary   *)
(* representation (below 1e-14 for the operands used here) and the sign of *)
(* zero are not modelled.  C ints are 32-bit two's-complement; a signed    *)
(* overflow is undefined behaviour and is recorded, never computed.        *)
(***************************************************************************)
EXTENDS Integers, Sequences, FiniteSets

VARIABLES
    pc,        \* position of the running program / function
    out,       \* lines written to stdout, in order (one id per printf)
    calls,     \* function invocations made by the caller, in order
    data,      \* complex_sample.c: the DataSet handed to process_data
    count,     \* complex_sample.c: process_data's count argument
    choice,    \* example.c main: menu choice read by scanf
    num1,      \* example.c main: integer operand (argument n / num)
    d1,        \* example.c main: first double operand (argument a)
    d2,        \* example.c main: second double operand (argument b)
    operator,  \* example.c main: operator character (argument op)
    result,    \* example.c main: int result; [val, ub] of the int function
    dresult,   \* example.c main: double result of calculate
    term,      \* how the process ended: "running", "exited", "signaled"
    exitCode,  \* exit status once term = "exited"
    i          \* example.c is_prime: the loop variable

vars == <<pc, out, calls, data, count, choice, num1, d1, d2, operator,
          result, dresult, term, exitCode, i>>

statsVars == <<data, count>>
calcVars == <<choice, num1, d1, d2, operator, result, dresult, term, exitCode>>

-----------------------------------------------------------------------------
(* Bounds of the model.                                                    *)

\* longest generic value sequence handed to process_data
MaxLen == 3
\* integer arguments of factorial / is_prime range over -MaxNeg .. MaxInt
MaxNeg == 3
MaxInt == 50
\* main's factorial operand ranges over -MaxNeg .. MaxFactArg
MaxFactArg == 14
\* double operands of calculate range over the integers -MaxOperand .. MaxOperand
MaxOperand == 6
\* menu choices range over 0 .. MaxChoice
MaxChoice == 4

-----------------------------------------------------------------------------
(* 32-bit int.                                                             *)

INT_MAX == 2147483647

Abs(x) == IF x < 0 THEN -x ELSE x

Sign(x) == IF x < 0 THEN -1 ELSE IF x = 0 THEN 0 ELSE 1

\* a * b leaves the range of int (a, b > 0), decided without forming a * b
MulOverflows(a, b) == a > INT_MAX \div b

-----------------------------------------------------------------------------
(* double.                                                                 *)

RECURSIVE GCD(_, _)
GCD(a, b) == IF b = 0 THEN a ELSE GCD(b, a % b)

\* the rational n/d (d # 0) in lowest terms with a positive denominator
Rat(n, d) ==
    LET g == GCD(Abs(n), Abs(d))
        s == Sign(d)
    IN  [k |-> "num", n |-> (s * n) \div g, d |-> Abs(d) \div g]

DInt(n) == Rat(n, 1)

NaN == [k |-> "nan", n |-> 0, d |-> 1]

Inf(s) == [k |-> "inf", n |-> s, d |-> 1]

\* the value of a double object that was never assigned
Indeterminate == [k |-> "indeterminate", n |-> 0, d |-> 1]

IsZero(x) == x.k = "num" /\ x.n = 0

DNeg(x) == IF x.k = "nan" THEN NaN ELSE [x EXCEPT !.n = -x.n]

\* x + y
DAdd(x, y) ==
    IF x.k = "nan" \/ y.k = "nan" THEN NaN
    ELSE IF x.k = "inf" THEN (IF y.k = "inf" /\ y.n # x.n THEN NaN ELSE x)
    ELSE IF y.k = "inf" THEN y
    ELSE Rat(x.n * y.d + y.n * x.d, x.d * y.d)

\* x - y
DSub(x, y) == DAdd(x, DNeg(y))

\* x * y
DMul(x, y) ==
    IF x.k = "nan" \/ y.k = "nan" THEN NaN
    ELSE IF x.k = "inf" \/ y.k = "inf"
         THEN (IF IsZero(x) \/ IsZero(y) THEN NaN ELSE Inf(Sign(x.n) * Sign(y.n)))
    ELSE Rat(x.n * y.n, x.d * y.d)

\* x / y, IEEE 754: x/0 is an infinity, 0/0 and inf/inf are NaN
DDiv(x, y) ==
    IF x.k = "nan" \/ y.k = "nan" THEN NaN
    ELSE IF x.k = "inf"
         THEN (IF y.k = "inf" THEN NaN
               ELSE Inf(x.n * (IF y.n < 0 THEN -1 ELSE 1)))
    ELSE IF y.k = "inf" THEN DInt(0)
    ELSE IF y.n = 0 THEN (IF x.n = 0 THEN NaN ELSE Inf(Sign(x.n)))
    ELSE Rat(x.n * y.d, x.d * y.n)

\* x > y; false when either is NaN
DGreater(x, y) ==
    IF x.k = "nan" \/ y.k = "nan" THEN FALSE
    ELSE IF x.k = "inf" THEN x.n > 0 /\ ~(y.k = "inf" /\ y.n > 0)
    ELSE IF y.k = "inf" THEN y.n < 0
    ELSE x.n * y.d > y.n * x.d

\* x != y; true when either is NaN
DNotEqual(x, y) == x.k = "nan" \/ y.k = "nan" \/ x # y

RECURSIVE PowNat(_, _)
PowNat(x, e) == IF e = 0 THEN DInt(1) ELSE DMul(x, PowNat(x, e - 1))

\* pow(x, y) of <math.h> for an integral or NaN exponent y
Pow(x, y) ==
    IF IsZero(y) THEN DInt(1)
    ELSE IF x = DInt(1) THEN DInt(1)
    ELSE IF x.k = "nan" \/ y.k = "nan" THEN NaN
    ELSE IF y.n > 0 THEN PowNat(x, y.n)
    ELSE IF IsZero(x) THEN Inf(1)
    ELSE DDiv(DInt(1), PowNat(x, -y.n))

-----------------------------------------------------------------------------
(* complex_sample.c                                                        *)

THRESHOLD == Rat(21, 2)

\* the loop of calculate_mean from index j (0-based) with running sum
RECURSIVE MeanLoop(_, _, _, _)
MeanLoop(arr, n, j, sum) ==
    IF j < n THEN MeanLoop(arr, n, j + 1, DAdd(sum, arr[j + 1])) ELSE sum

calculate_mean(arr, n) == DDiv(MeanLoop(arr, n, 0, DInt(0)), DInt(n))

\* the loop of calculate_variance from index j (0-based) with running sum
RECURSIVE VarianceLoop(_, _, _, _, _)
VarianceLoop(arr, n, mean, j, sum_sq_diff) ==
    IF j < n
    THEN LET diff == DSub(arr[j + 1], mean)
         IN  VarianceLoop(arr, n, mean, j + 1,
                          DAdd(sum_sq_diff, Pow(diff, DInt(2))))
    ELSE sum_sq_diff

\* mutant of calculate_variance: population variance, divisor n
calculate_variance_DivN(arr, n, mean) ==
    DDiv(VarianceLoop(arr, n, mean, 0, DInt(0)), DInt(n))

calculate_variance(arr, n, mean) ==
    DDiv(VarianceLoop(arr, n, mean, 0, DInt(0)), DInt(n - 1))

\* the sample main() stores in myData.values[0..4]
MainSample == <<Rat(125, 10), Rat(152, 10), Rat(98, 10), Rat(110, 10), Rat(145, 10)>>

\* a sample whose variance is exactly THRESHOLD
BoundarySample == <<DInt(0), DInt(1), DInt(1), DInt(6), DInt(7)>>

ValueSet == {DInt(0), DInt(1), DInt(6)}

SeqsUpTo(S, n) == UNION {[1..m -> S] : m \in 0..n}

Samples == {MainSample, BoundarySample} \cup SeqsUpTo(ValueSet, MaxLen)

NoData == [id |-> 0, values |-> <<>>, average |-> Indeterminate,
           variance |-> Indeterminate]

idleCalc ==
    /\ choice = 0 /\ num1 = 0 /\ d1 = Indeterminate /\ d2 = Indeterminate
    /\ operator = "" /\ result = [val |-> 0, ub |-> FALSE]
    /\ dresult = Indeterminate /\ term = "running" /\ exitCode = 0 /\ i = 0

\* main() up to the call of process_data, for any initialised prefix of
\* values and any count that reads only initialised elements
InitStats ==
    /\ pc = "process_data"
    /\ out = <<>>
    /\ calls = <<>>
    /\ \E vs \in Samples :
          /\ data = [id |-> 101, values |-> vs, average |-> Indeterminate,
                     variance |-> Indeterminate]
          /\ count \in -1..Len(vs)
    /\ idleCalc

InsufficientMsg == "Errore: Dati insufficienti per l'analisi statistica."

HighMsg == "Stato: Alta variabilita' rilevata."

NormalMsg == "Stato: Variabilita' nella norma."

ReportLines == <<"Analisi ID", "Media Calcolata", "Varianza">>

\* mutant of InsufficientData: the guard off by one
InsufficientData_OffByOne(c) == c < 1

\* process_data, line 39: the condition of the guard
InsufficientData(c) == c <= 1

\* mutant of Classify: the threshold itself counts as high
Classify_AtLeast(variance) ==
    IF DGreater(variance, THRESHOLD) \/ variance = THRESHOLD
    THEN HighMsg ELSE NormalMsg

\* process_data, lines 52-56: the label printed for a variance
Classify(variance) ==
    IF DGreater(variance, THRESHOLD) THEN HighMsg ELSE NormalMsg

\* process_data, lines 39-42: the guard
PD_Guard ==
    /\ pc = "process_data"
    /\ IF InsufficientData(count)
       THEN /\ out' = Append(out, InsufficientMsg)
            /\ pc' = "returned"
       ELSE /\ out' = out
            /\ pc' = "mean"
    /\ UNCHANGED <<calls, statsVars, calcVars, i>>

\* process_data, line 44
PD_Mean ==
    /\ pc = "mean"
    /\ data' = [data EXCEPT !.average = calculate_mean(data.values, count)]
    /\ calls' = Append(calls, <<"calculate_mean", count>>)
    /\ pc' = "variance"
    /\ UNCHANGED <<out, count, calcVars, i>>

\* process_data, line 45
PD_Variance ==
    /\ pc = "variance"
    /\ data' = [data EXCEPT
                  !.variance = calculate_variance(data.values, count, data.average)]
    /\ calls' = Append(calls, <<"calculate_variance", count>>)
    /\ pc' = "report"
    /\ UNCHANGED <<out, count, calcVars, i>>

\* process_data, lines 47-49
PD_Report ==
    /\ pc = "report"
    /\ out' = out \o ReportLines
    /\ pc' = "classify"
    /\ UNCHANGED <<calls, statsVars, calcVars, i>>

\* process_data, lines 52-56
PD_Classify ==
    /\ pc = "classify"
    /\ out' = Append(out, Classify(data.variance))
    /\ pc' = "returned"
    /\ UNCHANGED <<calls, statsVars, calcVars, i>>

NextStats == PD_Guard \/ PD_Mean \/ PD_Variance \/ PD_Report \/ PD_Classify

SpecStats == InitStats /\ [][NextStats]_vars

-----------------------------------------------------------------------------
(* example.c: the functions.  An int function returns [val, ub]: ub says   *)
(* that a signed overflow (undefined behaviour) happened on the way, and   *)
(* val is then meaningless.                                                *)

Defined(v) == [val |-> v, ub |-> FALSE]

Undefined == [val |-> 0, ub |-> TRUE]

\* mutant of factorial: the base case returns n instead of 1
RECURSIVE factorial_BaseN(_)
factorial_BaseN(n) ==
    IF n <= 1 THEN Defined(n)
    ELSE LET r == factorial_BaseN(n - 1)
         IN  IF r.ub \/ (r.val > 0 /\ MulOverflows(n, r.val)) THEN Undefined
             ELSE Defined(n * r.val)

RECURSIVE factorial(_)
factorial(n) ==
    IF n <= 1 THEN Defined(1)
    ELSE LET r == factorial(n - 1)
         IN  IF r.ub \/ MulOverflows(n, r.val) THEN Undefined
             ELSE Defined(n * r.val)

\* mutant of LoopStep: the loop condition is i * i < num
LoopStep_Strict(num, j) ==
    IF MulOverflows(j, j) THEN "overflow"
    ELSE IF j * j < num
         THEN (IF num % j = 0 THEN "return 0" ELSE "next")
    ELSE "return 1"

\* is_prime, lines 26-31: one evaluation of the loop condition i * i <= num
\* and, when it holds, of the loop body, with i = j
LoopStep(num, j) ==
    IF MulOverflows(j, j) THEN "overflow"
    ELSE IF j * j <= num
         THEN (IF num % j = 0 THEN "return 0" ELSE "next")
    ELSE "return 1"

RECURSIVE PrimeLoop(_, _)
PrimeLoop(num, j) ==
    LET step == LoopStep(num, j)
    IN  IF step = "overflow" THEN Undefined
        ELSE IF step = "return 0" THEN Defined(0)
        ELSE IF step = "return 1" THEN Defined(1)
        ELSE PrimeLoop(num, j + 1)

is_prime(num) == IF num < 2 THEN Defined(0) ELSE PrimeLoop(num, 2)

DivZeroMsg == "Error: Division by zero!"

InvalidOpMsg == "Error: Invalid operator!"

NoDiag(v) == [val |-> v, diag |-> <<>>]

\* mutant of calculate: no guard in front of the division
calculate_Unguarded(a, b, op) ==
    CASE op = "+" -> NoDiag(DAdd(a, b))
      [] op = "-" -> NoDiag(DSub(a, b))
      [] op = "*" -> NoDiag(DMul(a, b))
      [] op = "/" -> NoDiag(DDiv(a, b))
      [] op = "^" -> NoDiag(Pow(a, b))
      [] OTHER    -> [val |-> DInt(0), diag |-> <<InvalidOpMsg>>]

\* mutant of calculate: the '-' case adds
calculate_MinusAdds(a, b, op) ==
    CASE op = "+" -> NoDiag(DAdd(a, b))
      [] op = "-" -> NoDiag(DAdd(a, b))
      [] op = "*" -> NoDiag(DMul(a, b))
      [] op = "/" -> IF DNotEqual(b, DInt(0)) THEN NoDiag(DDiv(a, b))
                     ELSE [val |-> DInt(0), diag |-> <<DivZeroMsg>>]
      [] op = "^" -> NoDiag(Pow(a, b))
      [] OTHER    -> [val |-> DInt(0), diag |-> <<InvalidOpMsg>>]

\* calculate returns [val, diag]: the value and the lines it printed
calculate(a, b, op) ==
    CASE op = "+" -> NoDiag(DAdd(a, b))
      [] op = "-" -> NoDiag(DSub(a, b))
      [] op = "*" -> NoDiag(DMul(a, b))
      [] op = "/" -> IF DNotEqual(b, DInt(0)) THEN NoDiag(DDiv(a, b))
                     ELSE [val |-> DInt(0), diag |-> <<DivZeroMsg>>]
      [] op = "^" -> NoDiag(Pow(a, b))
      [] OTHER    -> [val |-> DInt(0), diag |-> <<InvalidOpMsg>>]

\* the inputs of the model
Ints == -MaxNeg..MaxInt

Doubles == {DInt(x) : x \in -MaxOperand..MaxOperand} \cup {NaN}

Ops == {"+", "-", "*", "/", "^", "%", "x"}

idleStats == data = NoData /\ count = 0

\* a caller about to apply one of the three functions to arguments
InitFun ==
    /\ out = <<>> /\ calls = <<>>
    /\ idleStats
    /\ choice = 0 /\ result = Defined(0) /\ dresult = Indeterminate
    /\ term = "running" /\ exitCode = 0 /\ i = 0
    /\ \/ /\ pc \in {"call factorial", "call is_prime"}
          /\ num1 \in Ints
          /\ d1 = Indeterminate /\ d2 = Indeterminate /\ operator = ""
       \/ /\ pc = "call calculate"
          /\ num1 = 0
          /\ d1 \in Doubles /\ d2 \in Doubles /\ operator \in Ops

CallFactorial ==
    /\ pc = "call factorial"
    /\ result' = factorial(num1)
    /\ pc' = "factorial returned"
    /\ UNCHANGED <<out, calls, statsVars, choice, num1, d1, d2, operator,
                   dresult, term, exitCode, i>>

CallIsPrime ==
    /\ pc = "call is_prime"
    /\ result' = is_prime(num1)
    /\ pc' = "is_prime returned"
    /\ UNCHANGED <<out, calls, statsVars, choice, num1, d1, d2, operator,
                   dresult, term, exitCode, i>>

CallCalculate ==
    /\ pc = "call calculate"
    /\ LET r == calculate(d1, d2, operator)
       IN  dresult' = r.val /\ out' = out \o r.diag
    /\ pc' = "calculate returned"
    /\ UNCHANGED <<calls, statsVars, choice, num1, d1, d2, operator,
                   result, term, exitCode, i>>

NextFun == CallFactorial \/ CallIsPrime \/ CallCalculate

SpecFun == InitFun /\ [][NextFun]_vars

-----------------------------------------------------------------------------
(* example.c: is_prime run one loop iteration at a time on 32-bit ints.    *)

LoopInputs == (0..MaxInt) \cup {INT_MAX}

InitPrimeLoop ==
    /\ pc = "is_prime"
    /\ num1 \in LoopInputs
    /\ out = <<>> /\ calls = <<>>
    /\ idleStats
    /\ choice = 0 /\ result = Defined(0) /\ dresult = Indeterminate
    /\ d1 = Indeterminate /\ d2 = Indeterminate /\ operator = ""
    /\ term = "running" /\ exitCode = 0 /\ i = 0

\* is_prime, lines 22-26: the early return and the loop's initialisation
IP_Enter ==
    /\ pc = "is_prime"
    /\ IF num1 < 2
       THEN result' = Defined(0) /\ pc' = "returned" /\ i' = i
       ELSE result' = result /\ pc' = "loop" /\ i' = 2
    /\ UNCHANGED <<out, calls, statsVars, choice, num1, d1, d2, operator,
                   dresult, term, exitCode>>

\* is_prime, lines 26-31: the loop condition, the body and i++
IP_Iterate ==
    /\ pc = "loop"
    /\ LET step == LoopStep(num1, i)
       IN  /\ pc' = (IF step = "overflow" THEN "overflow"
                     ELSE IF step = "next" THEN "loop" ELSE "returned")
           /\ i' = (IF step = "next" THEN i + 1 ELSE i)
           /\ result' = (IF step = "return 0" THEN Defined(0)
                         ELSE IF step = "return 1" THEN Defined(1)
                         ELSE result)
    /\ UNCHANGED <<out, calls, statsVars, choice, num1, d1, d2, operator,
                   dresult, term, exitCode>>

\* i * i overflowed: the behaviour is undefined.  The build may produce
\* either answer, or end the process (a trapping build).
IP_Undefined ==
    /\ pc = "overflow"
    /\ \/ \E v \in {0, 1} :
             result' = [val |-> v, ub |-> TRUE] /\ pc' = "returned"
             /\ term' = term
       \/ result' = Undefined /\ pc' = "done" /\ term' = "signaled"
    /\ UNCHANGED <<out, calls, statsVars, choice, num1, d1, d2, operator,
                   dresult, exitCode, i>>

NextPrimeLoop == IP_Enter \/ IP_Iterate \/ IP_Undefined

SpecPrimeLoop == InitPrimeLoop /\ [][NextPrimeLoop]_vars

-----------------------------------------------------------------------------
(* example.c: main.  scanf stores any value of the input domain; after a   *)
(* failed conversion the object keeps an indeterminate value, which is     *)
(* again any value of the domain.                                          *)

MenuLines == <<"=== Calculator Program ===", "1. Factorial", "2. Prime Check",
               "3. Arithmetic Operations", "Enter your choice: ">>

FactNegativeMsg == "Error: Factorial of negative number is undefined."

FactResultLine == "Factorial of %d is %d"

PrimeLine == "%d is a prime number."

NotPrimeLine == "%d is not a prime number."

ArithResultLine == "Result: %.2f %c %.2f = %.2f"

InvalidChoiceMsg == "Invalid choice!"

\* values an int object may hold after undefined behaviour
AnyInt == {-INT_MAX - 1, 0, INT_MAX}

\* mutant of NegativeInput: zero is rejected too
NegativeInput_OrZero(n) == n <= 0

\* main, line 75: the validation in front of factorial
NegativeInput(n) == n < 0

InitCalc ==
    /\ pc = "main"
    /\ out = <<>> /\ calls = <<>>
    /\ idleStats
    /\ idleCalc

\* main, lines 64-71: the menu, the choice and the dispatch
Main_ReadChoice ==
    /\ pc = "main"
    /\ out' = out \o MenuLines
    /\ \E c \in 0..MaxChoice : choice' = c
    /\ pc' = "switch"
    /\ UNCHANGED <<calls, statsVars, num1, d1, d2, operator, result, dresult,
                   term, exitCode, i>>

\* main, lines 72-81
Main_Factorial ==
    /\ pc = "switch" /\ choice = 1
    /\ \E n \in -MaxNeg..MaxFactArg :
          /\ num1' = n
          /\ IF NegativeInput(n)
             THEN /\ out' = out \o <<"Enter a number: ", FactNegativeMsg>>
                  /\ UNCHANGED <<calls, result, term>>
                  /\ pc' = "return"
             ELSE LET r == factorial(n)
                  IN  /\ calls' = Append(calls, <<"factorial", n>>)
                      /\ IF ~r.ub
                         THEN /\ result' = r
                              /\ out' = out \o <<"Enter a number: ", FactResultLine>>
                              /\ pc' = "return"
                              /\ term' = term
                         ELSE \* signed overflow in n * factorial(n - 1)
                              \/ /\ \E v \in AnyInt : result' = [val |-> v, ub |-> TRUE]
                                 /\ out' = out \o <<"Enter a number: ", FactResultLine>>
                                 /\ pc' = "return"
                                 /\ term' = term
                              \/ /\ result' = Undefined
                                 /\ out' = Append(out, "Enter a number: ")
                                 /\ pc' = "done"
                                 /\ term' = "signaled"
    /\ UNCHANGED <<statsVars, choice, d1, d2, operator, dresult, exitCode, i>>

\* main, lines 83-91 (the operands of the model stay below the 46340^2 at
\* which is_prime's i * i overflows; SpecPrimeLoop covers that case)
Main_Prime ==
    /\ pc = "switch" /\ choice = 2
    /\ \E n \in Ints :
          LET r == is_prime(n)
          IN  /\ num1' = n
              /\ calls' = Append(calls, <<"is_prime", n>>)
              /\ result' = r
              /\ out' = out \o <<"Enter a number: ",
                                 IF r.val # 0 THEN PrimeLine ELSE NotPrimeLine>>
    /\ pc' = "return"
    /\ UNCHANGED <<statsVars, choice, d1, d2, operator, dresult, term,
                   exitCode, i>>

\* main, lines 93-103
Main_Arithmetic ==
    /\ pc = "switch" /\ choice = 3
    /\ \E a \in Doubles, op \in Ops, b \in Doubles :
          LET r == calculate(a, b, op)
          IN  /\ d1' = a /\ operator' = op /\ d2' = b
              /\ calls' = Append(calls, <<"calculate", 0>>)
              /\ dresult' = r.val
              /\ out' = out \o <<"Enter first number: ",
                                 "Enter operator (+, -, *, /, ^): ",
                                 "Enter second number: ">>
                            \o r.diag \o <<ArithResultLine>>
    /\ pc' = "return"
    /\ UNCHANGED <<statsVars, choice, num1, result, term, exitCode, i>>

\* main, lines 105-106
Main_Default ==
    /\ pc = "switch" /\ choice \notin {1, 2, 3}
    /\ out' = Append(out, InvalidChoiceMsg)
    /\ pc' = "return"
    /\ UNCHANGED <<calls, statsVars, choice, num1, d1, d2, operator, result,
                   dresult, term, exitCode, i>>

\* main, line 109
Main_Return ==
    /\ pc = "return"
    /\ term' = "exited"
    /\ exitCode' = 0
    /\ pc' = "done"
    /\ UNCHANGED <<out, calls, statsVars, choice, num1, d1, d2, operator,
                   result, dresult, i>>

NextCalc ==
    \/ Main_ReadChoice
    \/ Main_Factorial
    \/ Main_Prime
    \/ Main_Arithmetic
    \/ Main_Default
    \/ Main_Return

SpecCalc == InitCalc /\ [][NextCalc]_vars

-----------------------------------------------------------------------------
(* Properties of complex_sample.c, checked under SpecStats.                *)

Range(s) == {s[x] : x \in DOMAIN s}

RECURSIVE SumSeq(_)
SumSeq(s) == IF s = <<>> THEN DInt(0) ELSE DAdd(Head(s), SumSeq(Tail(s)))

\* the sum of the squared deviations of the elements of s from m
SqDevSum(s, m) ==
    SumSeq([x \in DOMAIN s |-> DMul(DSub(s[x], m), DSub(s[x], m))])

\* a non-negative rational in thousandths, rounded to nearest
Round3(x) == (2000 * x.n + x.d) \div (2 * x.d)

FirstCount == SubSeq(data.values, 1, count)

MainSampleProcessed ==
    pc = "returned" /\ data.values = MainSample /\ count = 5

\* C1 as stated: on main's sample the mean is 12.6 and the variance, the
\* squared deviations summed and divided by 4, is 4.765 to three decimals.
C1_Original ==
    MainSampleProcessed =>
        /\ data.average = Rat(126, 10)
        /\ data.variance = DDiv(SqDevSum(MainSample, data.average), DInt(4))
        /\ Round3(data.variance) = 4765

\* C1 as amended: on main's sample [12.5, 15.2, 9.8, 11.0, 14.5] with
\* count = 5 the stored mean is 12.6 and the stored variance is the sum of
\* the squared deviations from that mean divided by 4, which is 5.195.
C1_SampleStatistics ==
    MainSampleProcessed =>
        /\ data.average = Rat(126, 10)
        /\ data.variance = DDiv(SqDevSum(MainSample, data.average), DInt(4))
        /\ Round3(data.variance) = 5195

C1_Witness == MainSampleProcessed /\ data.variance.k = "num"

\* C7: for every count <= 1 process_data prints the insufficient-data
\* error and returns: calculate_mean and calculate_variance are never
\* called, no analysis or classification line is printed, the DataSet is
\* left as it was, and no call made through process_data divides by n = 0
\* or n - 1 = 0.
C7_InsufficientData ==
    /\ [](count <= 1 =>
            /\ pc \in {"process_data", "returned"}
            /\ calls = <<>>
            /\ (pc = "returned" => out = <<InsufficientMsg>>))
    /\ [](\A c \in Range(calls) : c[2] >= 2)
    /\ [][count <= 1 => data' = data]_vars

C7_Witness ==
    pc = "returned" /\ count = 1 /\ Len(data.values) >= 1
    /\ out = <<InsufficientMsg>>

\* C8: for every count >= 2 process_data first stores the mean of the first
\* count values, then the variance computed from that stored mean, and only
\* then prints exactly one label: high variability iff the stored variance
\* is strictly greater than 10.5, normal otherwise (also at exactly 10.5).
C8_MeanVarianceClassify ==
    count >= 2 =>
        /\ pc = "mean" =>
              calls = <<>> /\ out = <<>> /\ data.average = Indeterminate
        /\ pc = "variance" =>
              /\ calls = <<<<"calculate_mean", count>>>>
              /\ out = <<>>
              /\ data.average = DDiv(SumSeq(FirstCount), DInt(count))
              /\ data.variance = Indeterminate
        /\ pc \in {"report", "classify", "returned"} =>
              /\ calls = <<<<"calculate_mean", count>>,
                           <<"calculate_variance", count>>>>
              /\ data.average = DDiv(SumSeq(FirstCount), DInt(count))
              /\ data.variance =
                    DDiv(SqDevSum(FirstCount, data.average), DInt(count - 1))
        /\ pc \in {"report", "classify"} =>
              HighMsg \notin Range(out) /\ NormalMsg \notin Range(out)
        /\ pc = "returned" =>
              /\ out = ReportLines \o
                    <<IF 2 * data.variance.n > 21 * data.variance.d
                      THEN HighMsg ELSE NormalMsg>>
              /\ (data.variance = Rat(21, 2) => out[Len(out)] = NormalMsg)

\* the boundary: a variance of exactly 10.5 has been classified
C8_Witness ==
    pc = "returned" /\ count = 5 /\ data.variance = Rat(21, 2)
    /\ out[Len(out)] = NormalMsg

-----------------------------------------------------------------------------
(* Properties of example.c.                                                *)

\* k * (k + 1) * ... * n
RECURSIVE ProductTo(_, _)
ProductTo(k, n) == IF k > n THEN 1 ELSE k * ProductTo(k + 1, n)

MathFact(n) == ProductTo(1, n)

\* C2 (SpecFun): is_prime(n) returns 1 iff n >= 2 and no d with 2 <= d < n
\* divides n, and otherwise 0; is_prime(1) = 0, is_prime(2) = 1,
\* is_prime(17) = 1, is_prime(18) = 0, and 4, 9, 25, 49 give 0.
C2_IsPrime ==
    pc = "is_prime returned" =>
        /\ ~result.ub
        /\ result.val \in {0, 1}
        /\ result.val = 1 <=>
              (num1 >= 2 /\ \A d \in 2..(num1 - 1) : num1 % d # 0)
        /\ (num1 \in {2, 17} => result.val = 1)
        /\ (num1 \in {1, 18, 4, 9, 25, 49} => result.val = 0)

C2_Witness == pc = "is_prime returned" /\ num1 = 49 /\ result.val = 0

\* C3 (SpecPrimeLoop): for every n in 0 .. 2^31 - 1 every i * i that the
\* loop condition of is_prime evaluates stays within the range of int.
C3_NoOverflow == pc = "loop" => ~MulOverflows(i, i)

\* C4 (SpecFun): factorial(n) is 1 for every n <= 1, negative n included;
\* for 2 <= n <= 12 it is n * (n - 1)! = n! computed without overflow
\* (factorial(0) = 1, factorial(1) = 1, factorial(5) = 120); for n = 13 the
\* product 13 * 12! exceeds 2^31 - 1.
C4_Factorial ==
    pc = "factorial returned" =>
        /\ (num1 <= 1 => result = Defined(1))
        /\ (num1 \in 2..12 =>
              /\ result = Defined(MathFact(num1))
              /\ result.val = num1 * MathFact(num1 - 1))
        /\ (num1 = 5 => result = Defined(120))
        /\ (num1 = 13 => result.ub /\ MathFact(12) > INT_MAX \div 13)

C4_Witness ==
    pc = "factorial returned" /\ num1 = 12 /\ result = Defined(479001600)

\* C5 (SpecCalc): calculate(a, 0, '/') prints the division-by-zero
\* diagnostic and returns 0, not the quotient, and the process goes on to
\* exit with status 0; for b # 0 calculate(a, b, '/') returns a / b and
\* prints no diagnostic.
C5_DivisionByZero ==
    (pc \in {"return", "done"} /\ choice = 3 /\ operator = "/") =>
        IF d2 = DInt(0)
        THEN /\ dresult = DInt(0)
             /\ DivZeroMsg \in Range(out)
             /\ term # "signaled"
             /\ (pc = "done" => term = "exited" /\ exitCode = 0)
        ELSE /\ DivZeroMsg \notin Range(out)
             /\ InvalidOpMsg \notin Range(out)
             /\ IF d1.k = "nan" \/ d2.k = "nan"
                THEN dresult = NaN
                ELSE /\ dresult.k = "num"
                     /\ dresult.n * d2.n * d1.d = d1.n * d2.d * dresult.d

C5_Witness ==
    pc = "done" /\ choice = 3 /\ operator = "/" /\ d1 = DInt(6)
    /\ d2 = DInt(0) /\ dresult = DInt(0) /\ term = "exited"

ValidOps == {"+", "-", "*", "/", "^"}

\* the double of the integer v, or NaN when an operand is NaN
IntOrNaN(x, y, v) == IF x.k = "nan" \/ y.k = "nan" THEN NaN ELSE DInt(v)

\* C6 (SpecFun): calculate prints a diagnostic iff op is none of + - * / ^
\* (invalid operator) or op is / with b = 0 (division by zero); it then
\* returns 0; for + - * it returns a + b, a - b, a * b and prints nothing.
C6_Diagnostics ==
    pc = "calculate returned" =>
        LET invalid == operator \notin ValidOps
            divzero == operator = "/" /\ d2 = DInt(0)
        IN  /\ out = (IF invalid THEN <<InvalidOpMsg>>
                      ELSE IF divzero THEN <<DivZeroMsg>> ELSE <<>>)
            /\ (invalid \/ divzero => dresult = DInt(0))
            /\ (operator = "+" => dresult = IntOrNaN(d1, d2, d1.n + d2.n))
            /\ (operator = "-" => dresult = IntOrNaN(d1, d2, d1.n - d2.n))
            /\ (operator = "*" => dresult = IntOrNaN(d1, d2, d1.n * d2.n))

C6_Witness ==
    pc = "calculate returned" /\ operator = "%" /\ out = <<InvalidOpMsg>>
    /\ dresult = DInt(0)

\* C9 (SpecCalc): with menu choice 1 and a negative number main prints the
\* invalid-factorial diagnostic, never calls factorial and prints no
\* factorial result; with a number >= 0 it calls factorial exactly once,
\* with that number, and prints no diagnostic.
C9_FactorialValidation ==
    (pc \in {"return", "done"} /\ choice = 1) =>
        IF num1 < 0
        THEN /\ FactNegativeMsg \in Range(out)
             /\ calls = <<>>
             /\ FactResultLine \notin Range(out)
        ELSE /\ calls = <<<<"factorial", num1>>>>
             /\ FactNegativeMsg \notin Range(out)

C9_Witness ==
    pc = "done" /\ choice = 1 /\ num1 < 0 /\ FactNegativeMsg \in Range(out)
    /\ calls = <<>>

\* C10 (SpecCalc): every run of the calculator that ends ends by exiting
\* with status 0, whatever the choice and the operands.
C10_AlwaysExitsZero == pc = "done" => (term = "exited" /\ exitCode = 0)

====
